---------------------------- MODULE Spec2Model ----------------------------
(***************************************************************************)
(* Model of the notification relay in src/hooker.py: the sliding-window    *)
(* rate limiter, the payload validator, the chat notifier with its retry   *)
(* loop, and the webhook handler that runs them for every request.         *)
(*                                                                         *)
(* Three specifications share the module:                                  *)
(*   Spec          the server: concurrent webhook requests                 *)
(*   SpecNotifier  one direct call of send_to_telegram(message, retries)   *)
(*   SpecValidate  one call of validate_notification_data(data)            *)
(***************************************************************************)
EXTENDS Integers, Sequences, FiniteSets, TLC

(***************************************************************************)
(* Configuration constants (src/hooker.py:40-47).                          *)
(***************************************************************************)
MAX_MESSAGE_LENGTH == 4096
MAX_SERVICE_LENGTH == 100
MAX_EVENT_LENGTH == 100
MAX_FIELD_LENGTH == 1000
\* RATE_LIMIT_WINDOW is read from the environment (line 47); the model runs
\* the server configured with a window of 3 seconds.  RATE_LIMIT_REQUESTS,
\* read from the environment too (line 46), is a variable fixed at start-up
\* to one of the quotas of Quotas.
RATE_LIMIT_WINDOW == 3
Quotas == {1, 2}
\* max_retries as the handler passes it (default argument of send_to_telegram)
DEFAULT_MAX_RETRIES == 3

(***************************************************************************)
(* Bounds of the model.                                                    *)
(***************************************************************************)
\* Spec: number of webhook requests that arrive
MaxReq == 2
\* Spec: last instant of the clock (seconds); the run stays inside one
\* rate-limit window, the expiry of entries is exercised in SpecLimiter
MaxTime == 1
\* SpecLimiter: number of requests that arrive, last instant of the clock
MaxCalls == 4
MaxClock == 3
\* largest max_retries argument of a direct send_to_telegram call
MaxRetriesArg == 3

(***************************************************************************)
(* Strings.  A Python str is kept run-length encoded: a sequence of runs   *)
(* [ch, n] (n >= 1, neighbouring runs of different characters), so that    *)
(* texts of several thousand characters stay small.  len, + and s[:k] are  *)
(* computed on that form.                                                  *)
(***************************************************************************)
Rep(c, n) == IF n <= 0 THEN << >> ELSE << [ch |-> c, n |-> n] >>

RECURSIVE len(_)
len(s) == IF s = << >> THEN 0 ELSE Head(s).n + len(Tail(s))

Concat(a, b) ==
    IF a = << >> THEN b
    ELSE IF b = << >> THEN a
    ELSE IF a[Len(a)].ch = b[1].ch
         THEN SubSeq(a, 1, Len(a) - 1)
              \o << [ch |-> b[1].ch, n |-> a[Len(a)].n + b[1].n] >>
              \o Tail(b)
         ELSE a \o b

RECURSIVE Slice(_, _)
Slice(s, k) ==
    IF k <= 0 \/ s = << >> THEN << >>
    ELSE IF Head(s).n <= k
         THEN Concat(<< Head(s) >>, Slice(Tail(s), k - Head(s).n))
         ELSE << [ch |-> Head(s).ch, n |-> k] >>

\* every character of s is ASCII ("MEGAPHONE", "CROSS" and "E_ACUTE" stand
\* for the non-ASCII characters the model uses)
NonAscii == {"MEGAPHONE", "CROSS", "E_ACUTE"}
IsAscii(s) == \A i \in 1..Len(s) : s[i].ch \notin NonAscii

(***************************************************************************)
(* JSON values.  A decoded body is a record; a member of an object is a    *)
(* value [type, s, b]: type "absent" says the key is not in the object.    *)
(***************************************************************************)
Absent == [type |-> "absent", s |-> << >>, b |-> FALSE]
JStr(s) == [type |-> "str", s |-> s, b |-> FALSE]
JBool(v) == [type |-> "bool", s |-> << >>, b |-> v]
JInt == [type |-> "int", s |-> << >>, b |-> FALSE]
JNull == [type |-> "null", s |-> << >>, b |-> FALSE]

JObject(sv, ev, er, mv) ==
    [kind |-> "dict", service |-> sv, event |-> ev, error |-> er, message |-> mv]
JOther(k) ==
    [kind |-> k, service |-> Absent, event |-> Absent, error |-> Absent,
     message |-> Absent]

(***************************************************************************)
(* validate_notification_data (src/hooker.py:170-209)                      *)
(***************************************************************************)
None == "None"

validate_notification_data_no_message_limit(data) ==
    IF data.kind # "dict"
    THEN <<FALSE, "Data must be a JSON object">>
    ELSE IF data.service.type = "absent" \/ data.message.type = "absent"
    THEN <<FALSE, "Missing required fields: 'service' and 'message'">>
    ELSE IF data.service.type # "str"
    THEN <<FALSE, "Field 'service' must be a string">>
    ELSE IF len(data.service.s) > MAX_SERVICE_LENGTH
    THEN <<FALSE, "Field 'service' exceeds maximum length of 100">>
    ELSE IF data.event.type # "absent" /\ data.event.type # "str"
    THEN <<FALSE, "Field 'event' must be a string">>
    ELSE IF data.event.type # "absent" /\ len(data.event.s) > MAX_EVENT_LENGTH
    THEN <<FALSE, "Field 'event' exceeds maximum length of 100">>
    ELSE IF data.message.type # "str"
    THEN <<FALSE, "Field 'message' must be a string">>
    ELSE IF data.error.type # "absent" /\ data.error.type # "bool"
    THEN <<FALSE, "Field 'error' must be a boolean">>
    ELSE <<TRUE, None>>

validate_notification_data_swapped(data) ==
    IF data.kind # "dict"
    THEN <<FALSE, "Data must be a JSON object">>
    ELSE IF data.service.type = "absent" \/ data.message.type = "absent"
    THEN <<FALSE, "Missing required fields: 'service' and 'message'">>
    ELSE IF data.error.type # "absent" /\ data.error.type # "bool"
    THEN <<FALSE, "Field 'error' must be a boolean">>
    ELSE IF data.service.type # "str"
    THEN <<FALSE, "Field 'service' must be a string">>
    ELSE IF len(data.service.s) > MAX_SERVICE_LENGTH
    THEN <<FALSE, "Field 'service' exceeds maximum length of 100">>
    ELSE IF data.event.type # "absent" /\ data.event.type # "str"
    THEN <<FALSE, "Field 'event' must be a string">>
    ELSE IF data.event.type # "absent" /\ len(data.event.s) > MAX_EVENT_LENGTH
    THEN <<FALSE, "Field 'event' exceeds maximum length of 100">>
    ELSE IF data.message.type # "str"
    THEN <<FALSE, "Field 'message' must be a string">>
    ELSE IF len(data.message.s) > MAX_FIELD_LENGTH
    THEN <<FALSE, "Field 'message' exceeds maximum length of 1000">>
    ELSE <<TRUE, None>>

validate_notification_data(data) ==
    IF data.kind # "dict"
    THEN <<FALSE, "Data must be a JSON object">>
    ELSE IF data.service.type = "absent" \/ data.message.type = "absent"
    THEN <<FALSE, "Missing required fields: 'service' and 'message'">>
    ELSE IF data.service.type # "str"
    THEN <<FALSE, "Field 'service' must be a string">>
    ELSE IF len(data.service.s) > MAX_SERVICE_LENGTH
    THEN <<FALSE, "Field 'service' exceeds maximum length of 100">>
    ELSE IF data.event.type # "absent" /\ data.event.type # "str"
    THEN <<FALSE, "Field 'event' must be a string">>
    ELSE IF data.event.type # "absent" /\ len(data.event.s) > MAX_EVENT_LENGTH
    THEN <<FALSE, "Field 'event' exceeds maximum length of 100">>
    ELSE IF data.message.type # "str"
    THEN <<FALSE, "Field 'message' must be a string">>
    ELSE IF len(data.message.s) > MAX_FIELD_LENGTH
    THEN <<FALSE, "Field 'message' exceeds maximum length of 1000">>
    ELSE IF data.error.type # "absent" /\ data.error.type # "bool"
    THEN <<FALSE, "Field 'error' must be a boolean">>
    ELSE <<TRUE, None>>

(***************************************************************************)
(* check_rate_limit (src/hooker.py:58-80) on the table rate_limit_store.   *)
(* The table is a defaultdict(list): a client never seen has the empty     *)
(* sequence.  The call is synchronous, so it is one step.                  *)
(***************************************************************************)
Clients == {"10.0.0.1", "unknown"}

VARIABLE RATE_LIMIT_REQUESTS   \* int(os.getenv('RATE_LIMIT_REQUESTS', '10'))

Unexpired_inclusive(seq, t) ==
    SelectSeq(seq, LAMBDA req_time : t - req_time <= RATE_LIMIT_WINDOW)

\* line 70-71: the entries of seq still inside the window at instant t
Unexpired(seq, t) ==
    SelectSeq(seq, LAMBDA req_time : t - req_time < RATE_LIMIT_WINDOW)

LimitExceeded_off_by_one(seq) == Len(seq) > RATE_LIMIT_REQUESTS

\* line 74
LimitExceeded(seq) == Len(seq) >= RATE_LIMIT_REQUESTS

check_rate_limit_counts_rejected(store, ip, t) ==
    LET kept == Unexpired(store[ip], t)
    IN  IF LimitExceeded(kept)
        THEN [ok |-> FALSE, store |-> [store EXCEPT ![ip] = Append(kept, t)]]
        ELSE [ok |-> TRUE, store |-> [store EXCEPT ![ip] = Append(kept, t)]]

check_rate_limit_prunes_all(store, ip, t) ==
    LET kept == Unexpired(store[ip], t)
        others == [c \in DOMAIN store |-> Unexpired(store[c], t)]
    IN  IF LimitExceeded(kept)
        THEN [ok |-> FALSE, store |-> [others EXCEPT ![ip] = kept]]
        ELSE [ok |-> TRUE, store |-> [others EXCEPT ![ip] = Append(kept, t)]]

check_rate_limit_lost_update(store, ip, t) ==
    LET kept == Unexpired(store[ip], t)
    IN  IF LimitExceeded(kept)
        THEN [ok |-> FALSE, store |-> [store EXCEPT ![ip] = kept]]
        ELSE [ok |-> TRUE, store |-> [store EXCEPT ![ip] = << t >>]]

\* the value returned and the table after the call
check_rate_limit(store, ip, t) ==
    LET kept == Unexpired(store[ip], t)
    IN  IF LimitExceeded(kept)
        THEN [ok |-> FALSE, store |-> [store EXCEPT ![ip] = kept]]
        ELSE [ok |-> TRUE, store |-> [store EXCEPT ![ip] = Append(kept, t)]]

(***************************************************************************)
(* send_to_telegram (src/hooker.py:83-123).  A call is a frame: the text   *)
(* it posts, the loop variable attempt, where the coroutine is suspended   *)
(* (pc: "post" awaiting session.post, "sleep" awaiting asyncio.sleep,      *)
(* "returned", "raised" when an exception leaves it), the argument of the  *)
(* pending asyncio.sleep, the value returned, and the texts posted so far. *)
(* A sleep only suspends the                                               *)
(* coroutine, which reads no clock afterwards, so its end is a step of its *)
(* own and the seconds asked for are kept in the frame.                    *)
(***************************************************************************)
\* what one attempt can meet:
\*   "200"               response.status == 200
\*   "non200"            another status, error text read
\*   "non200_text_error" another status, reading the error text raises
\*   "ClientError"       aiohttp.ClientError from the session or the post
\*   "Exception"         any other Exception (timeout, OS error, ...)
AttemptOutcomes ==
    {"200", "non200", "non200_text_error", "ClientError", "Exception"}

Truncated_no_room(message) ==
    IF len(message) > MAX_MESSAGE_LENGTH
    THEN Concat(Slice(message, MAX_MESSAGE_LENGTH), Rep(".", 3))
    ELSE message

\* lines 95-96
Truncated(message) ==
    IF len(message) > MAX_MESSAGE_LENGTH
    THEN Concat(Slice(message, MAX_MESSAGE_LENGTH - 3), Rep(".", 3))
    ELSE message

Succeeded_any_status(outcome) == outcome \in {"200", "non200"}

\* line 107
Succeeded(outcome) == outcome = "200"

\* the attempt raised inside the try block
Raised(outcome) == outcome \in {"non200_text_error", "ClientError", "Exception"}

Caught_client_only(outcome) == outcome \in {"non200_text_error", "ClientError"}

\* lines 113 and 117: `except aiohttp.ClientError` takes the errors of the
\* HTTP client, `except Exception` every other one
Caught(outcome) ==
    \/ outcome \in {"non200_text_error", "ClientError"}
    \/ outcome = "Exception"

RECURSIVE Pow2(_)
Pow2(k) == IF k <= 0 THEN 1 ELSE 2 * Pow2(k - 1)

IdleCall ==
    [pc |-> "none", text |-> << >>, max_retries |-> 0, attempt |-> 0,
     delay |-> 0, result |-> FALSE, posts |-> << >>]

\* lines 94-102: from the call to the first session.post (or to the return
\* when range(max_retries) is empty)
send_to_telegram(message, max_retries) ==
    [IdleCall EXCEPT !.text = Truncated(message),
                     !.max_retries = max_retries,
                     !.pc = IF max_retries > 0 THEN "post" ELSE "returned"]

\* lines 102, 122-123: next iteration of the for loop, or fall out of it
NextIteration(f) ==
    IF f.attempt + 1 < f.max_retries
    THEN [f EXCEPT !.attempt = f.attempt + 1, !.pc = "post"]
    ELSE [f EXCEPT !.attempt = f.attempt + 1, !.pc = "returned",
                   !.result = FALSE]

post_attempt_always_sleeps(f, outcome) ==
    LET g == [f EXCEPT !.posts = Append(f.posts, f.text)]
    IN  IF Succeeded(outcome)
        THEN [g EXCEPT !.pc = "returned", !.result = TRUE]
        ELSE IF Raised(outcome) /\ ~Caught(outcome)
        THEN [g EXCEPT !.pc = "raised"]
        ELSE IF Raised(outcome)
        THEN [g EXCEPT !.pc = "sleep", !.delay = Pow2(f.attempt)]
        ELSE NextIteration(g)

\* lines 103-120: session.post ends with outcome
post_attempt(f, outcome) ==
    LET g == [f EXCEPT !.posts = Append(f.posts, f.text)]
    IN  IF Succeeded(outcome)
        THEN [g EXCEPT !.pc = "returned", !.result = TRUE]
        ELSE IF Raised(outcome) /\ ~Caught(outcome)
        THEN [g EXCEPT !.pc = "raised"]
        ELSE IF Raised(outcome) /\ f.attempt < f.max_retries - 1
        THEN [g EXCEPT !.pc = "sleep", !.delay = Pow2(f.attempt)]
        ELSE NextIteration(g)

\* lines 116, 120: asyncio.sleep returns
sleep_done(f) == NextIteration([f EXCEPT !.delay = 0])

(***************************************************************************)
(* The webhook handler (src/hooker.py:212-306).                            *)
(***************************************************************************)
\* the configured secret, and the API-Key headers requests carry
API_KEY == Rep("k", 2)
NoHeader == [present |-> FALSE, s |-> << >>]
Header(s) == [present |-> TRUE, s |-> s]
Headers ==
    {NoHeader, Header(<< >>), Header(Rep("x", 2)), Header(Rep("E_ACUTE", 1)),
     Header(API_KEY)}

\* request.headers.get('API-Key', '')  (line 235)
HeaderGet(h) == IF h.present THEN h.s ELSE << >>

\* secrets.compare_digest on two str: TypeError unless both are ASCII
compare_digest(a, b) ==
    IF ~IsAscii(a) \/ ~IsAscii(b) THEN "TypeError"
    ELSE IF a = b THEN "True" ELSE "False"

\* request.remote, None when the transport has no peer name
Remotes == {"10.0.0.1", "None"}
\* Spec: the requests come from one peer
Peers == {"10.0.0.1"}

\* line 224
ClientIp(remote) == IF remote = "None" THEN "unknown" ELSE remote

\* the bodies requests carry: JOther("malformed") is a body request.json()
\* raises on, the others are the values it returns: a notification with the
\* longest service and message and no error member, one with error false,
\* one with error true, and two that the validator refuses
Bodies ==
    { JOther("malformed"),
      JObject(JStr(Rep("s", MAX_SERVICE_LENGTH)), Absent, Absent,
              JStr(Rep("m", MAX_FIELD_LENGTH))),
      JObject(JStr(Rep("b", 7)), Absent, JBool(FALSE), JStr(Rep("m", 4))),
      JObject(JStr(Rep("b", 7)), JStr(Rep("e", 2)), JBool(TRUE), JStr(Rep("f", 6))),
      JObject(JStr(Rep("x", 101)), Absent, JInt, JStr(Rep("m", 4))),
      JObject(JStr(Rep("b", 7)), Absent, Absent,
              JStr(Rep("m", MAX_MESSAGE_LENGTH + 4))) }

Resp(status, key, text) == [status |-> status, key |-> key, text |-> text]
NoResponse == Resp(0, "none", "none")
RateLimitResponse == Resp(429, "error", "Rate limit exceeded. Please try again later.")
UnauthorizedResponse == Resp(401, "error", "Unauthorized")
InvalidJsonResponse == Resp(400, "error", "Invalid JSON format")
ValidationResponse(msg) == Resp(400, "error", msg)
DatabaseErrorResponse == Resp(500, "error", "Database error")
SuccessResponse == Resp(200, "success", "true")
ServiceUnavailableResponse == Resp(503, "error", "Service unavailable")
InternalErrorResponse == Resp(500, "error", "Internal Server Error")

ExceptionResponse_all_500(exc) == InternalErrorResponse

\* lines 295-306: the two outer except clauses
ExceptionResponse(exc) ==
    IF exc = "ClientError" THEN ServiceUnavailableResponse
    ELSE InternalErrorResponse

telegram_message_info_only(data) ==
    Concat(Concat(Rep("MEGAPHONE", 1) \o Rep(" ", 1), data.service.s),
           Concat(Rep(":", 1) \o Rep(" ", 1), data.message.s))

\* lines 287-289
telegram_message(data) ==
    Concat(Concat(IF data.error.type = "bool" /\ data.error.b
                  THEN Rep("CROSS", 1) \o Rep(" ", 1)
                  ELSE Rep("MEGAPHONE", 1) \o Rep(" ", 1),
                  data.service.s),
           Concat(Rep(":", 1) \o Rep(" ", 1), data.message.s))

\* lines 235-236: "ok", "unauthorized", or the exception compare_digest raises
Authenticate(header) ==
    LET api_key == HeaderGet(header)
    IN  IF api_key = << >> THEN "unauthorized"
        ELSE LET eq == compare_digest(api_key, API_KEY)
             IN  IF eq = "TypeError" THEN "TypeError"
                 ELSE IF eq = "True" THEN "ok" ELSE "unauthorized"



\* what a store call (connect, execute, commit, close) can meet: it works,
\* it raises aiosqlite.Error, or (shown at the connect) it raises an
\* exception of another class
StoreOutcomes == {"ok", "aiosqlite.Error"}
ConnectOutcomes == StoreOutcomes \cup {"ClientError", "Exception"}

StoreExceptResponse_generic(exc) == ExceptionResponse(exc)

\* lines 279-284, else the outer clauses
StoreExceptResponse(exc) ==
    IF exc = "aiosqlite.Error" THEN DatabaseErrorResponse
    ELSE ExceptionResponse(exc)

SendReturnResponse_checked(sent) ==
    IF sent THEN SuccessResponse ELSE ServiceUnavailableResponse

\* lines 291-293: the value send_to_telegram returns is dropped
SendReturnResponse(sent) == SuccessResponse

NoExc == [at |-> "none", type |-> "none"]

\* the body of a request, as long as request.json() has not read it
Unread == JOther("none")

\* the state of one request's handler: where it is suspended (pc), what the
\* request carries, what the handler holds, its response, and a log: the
\* gates it evaluated and the exception that ended it
NewReq ==
    [pc |-> "new", remote |-> "None", client_ip |-> "unknown",
     header |-> NoHeader, body |-> Unread,
     admitted |-> FALSE, current_time |-> 0, conn |-> "none",
     call |-> IdleCall, response |-> NoResponse, gates |-> << >>,
     exc |-> NoExc]

Respond(req, response) == [req EXCEPT !.pc = "done", !.response = response]
Raise(req, at, exc, response) ==
    [req EXCEPT !.pc = "done", !.response = response,
                !.exc = [at |-> at, type |-> exc]]

\* the row the INSERT of lines 266-275 writes for request r (data is the
\* decoded body); req is the request that wrote it
Row(data, current_time, r, id) ==
    [id |-> id,
     service |-> data.service.s,
     event |-> IF data.event.type = "absent" THEN << >> ELSE data.event.s,
     error |-> IF data.error.type = "absent" THEN FALSE ELSE data.error.b,
     message |-> data.message.s,
     created_at |-> current_time,
     req |-> r]

VARIABLES
    now,               \* time(): the clock, in seconds
    rate_limit_store,  \* client -> sequence of admitted request instants
    reqs,              \* Spec: request number -> the state of its handler
    nreq,              \* Spec: number of requests that have arrived
    rows,              \* Spec: the committed rows of notifications, by id
    calls,             \* SpecLimiter: the requests answered, in order
    message,           \* SpecNotifier: the message argument
    max_retries,       \* SpecNotifier: the max_retries argument
    call,              \* SpecNotifier: the frame of the call
    outcomes,          \* SpecNotifier: what each attempt met, in order
    sleeps,            \* SpecNotifier: the sleeps, <<attempt, seconds>>
    payload,           \* SpecValidate: the argument
    result             \* SpecValidate: the value returned

vars == <<RATE_LIMIT_REQUESTS, now, rate_limit_store, reqs, nreq, rows, calls,
          message, max_retries, call, outcomes, sleeps, payload, result>>
handlerVars == <<reqs, nreq, rows>>
notifierVars == <<message, max_retries, call, outcomes, sleeps>>
validateVars == <<payload, result>>

NoResult == <<FALSE, "pending">>

LimiterIdle ==
    /\ now = 0
    /\ rate_limit_store = [c \in Clients |-> << >>]
    /\ calls = << >>
HandlerIdle ==
    /\ reqs = [r \in 1..MaxReq |-> NewReq]
    /\ nreq = 0
    /\ rows = << >>
NotifierIdle ==
    /\ message = << >>
    /\ max_retries = 0
    /\ call = IdleCall
    /\ outcomes = << >>
    /\ sleeps = << >>
ValidateIdle ==
    /\ payload = JOther("none")
    /\ result = NoResult

Init ==
    /\ RATE_LIMIT_REQUESTS \in Quotas
    /\ LimiterIdle
    /\ HandlerIdle
    /\ NotifierIdle
    /\ ValidateIdle

\* the clock advances
Tick ==
    /\ now < MaxTime
    /\ now' = now + 1
    /\ UNCHANGED <<RATE_LIMIT_REQUESTS, rate_limit_store, handlerVars, calls,
                   notifierVars, validateVars>>

WebhookEntry_auth_first(store, t, remote, header) ==
    LET client_ip == ClientIp(remote)
        rl == check_rate_limit(store, client_ip, t)
        auth == Authenticate(header)
        req == [NewReq EXCEPT !.remote = remote, !.client_ip = client_ip,
                              !.header = header]
    IN  IF auth = "unauthorized"
        THEN [store |-> store,
              req |-> Respond([req EXCEPT !.gates = <<"auth">>],
                              UnauthorizedResponse)]
        ELSE IF auth = "TypeError"
        THEN [store |-> store,
              req |-> Raise([req EXCEPT !.gates = <<"auth">>], "auth", auth,
                            ExceptionResponse(auth))]
        ELSE [store |-> rl.store,
              req |-> IF ~rl.ok
                      THEN Respond([req EXCEPT !.gates = <<"auth", "rate">>],
                                   RateLimitResponse)
                      ELSE [req EXCEPT !.pc = "json", !.admitted = TRUE,
                                       !.gates = <<"auth", "rate">>]]

\* lines 222-244: the handler of a request from remote with the API-Key
\* header, started at instant t on the table store, runs without suspension
\* through the rate check and the authentication up to `await request.json()`
WebhookEntry(store, t, remote, header) ==
    LET client_ip == ClientIp(remote)
        rl == check_rate_limit(store, client_ip, t)
        auth == Authenticate(header)
        req == [NewReq EXCEPT !.remote = remote, !.client_ip = client_ip,
                              !.header = header,
                              !.admitted = rl.ok,
                              !.gates = IF rl.ok THEN <<"rate", "auth">>
                                        ELSE <<"rate">>]
    IN  [store |-> rl.store,
         req |-> IF ~rl.ok THEN Respond(req, RateLimitResponse)
                 ELSE IF auth = "unauthorized"
                 THEN Respond(req, UnauthorizedResponse)
                 ELSE IF auth = "TypeError"
                 THEN Raise(req, "auth", auth, ExceptionResponse(auth))
                 ELSE [req EXCEPT !.pc = "json"]]

\* a request arrives
webhook(remote, header) ==
    /\ nreq < MaxReq
    /\ LET e == WebhookEntry(rate_limit_store, now, remote, header)
       IN  /\ rate_limit_store' = e.store
           /\ nreq' = nreq + 1
           /\ reqs' = [reqs EXCEPT ![nreq + 1] = e.req]
    /\ UNCHANGED <<RATE_LIMIT_REQUESTS, now, rows, calls, notifierVars,
                   validateVars>>

\* lines 244-263: request.json() reads the body of the request: it raises or
\* returns the decoded body; the payload is validated; the handler suspends
\* in get_db_connection()
ReadJson(r, body) ==
    /\ reqs[r].pc = "json"
    /\ LET req == [reqs[r] EXCEPT !.body = body,
                                  !.gates = Append(reqs[r].gates, "parse")]
           v == validate_notification_data(req.body)
       IN  reqs' = [reqs EXCEPT ![r] =
               IF req.body.kind = "malformed"
               THEN Respond(req, InvalidJsonResponse)
               ELSE IF ~v[1]
               THEN Respond([req EXCEPT !.gates = Append(req.gates, "validate")],
                            ValidationResponse(v[2]))
               ELSE [req EXCEPT !.pc = "connect",
                                !.gates = req.gates \o <<"validate", "persist">>]]
    /\ UNCHANGED <<RATE_LIMIT_REQUESTS, now, rate_limit_store, nreq, rows,
                   calls, notifierVars, validateVars>>

\* lines 263-275: aiosqlite.connect returns or raises; current_time is taken
\* and the INSERT is handed to the connection
Connect(r, outcome) ==
    /\ reqs[r].pc = "connect"
    /\ reqs' = [reqs EXCEPT ![r] =
           IF outcome = "ok"
           THEN [reqs[r] EXCEPT !.conn = "open", !.current_time = now,
                                !.pc = "execute"]
           ELSE Raise(reqs[r], "connect", outcome, StoreExceptResponse(outcome))]
    /\ UNCHANGED <<RATE_LIMIT_REQUESTS, now, rate_limit_store, nreq, rows,
                   calls, notifierVars, validateVars>>

\* another connection holds an uncommitted INSERT (the database file has one
\* writer at a time)
WriterBusy(r) == \E q \in 1..MaxReq : q # r /\ reqs[q].conn = "tx"

\* lines 266-276: the INSERT is executed or raises; the handler suspends in
\* conn.commit().  Nothing closes the connection when a call raises.
Execute(r, outcome) ==
    /\ reqs[r].pc = "execute"
    /\ outcome = "ok" => ~WriterBusy(r)
    /\ reqs' = [reqs EXCEPT ![r] =
           IF outcome = "ok"
           THEN [reqs[r] EXCEPT !.conn = "tx", !.pc = "commit"]
           ELSE Raise(reqs[r], "execute", outcome, StoreExceptResponse(outcome))]
    /\ UNCHANGED <<RATE_LIMIT_REQUESTS, now, rate_limit_store, nreq, rows,
                   calls, notifierVars, validateVars>>

\* lines 276-277: the commit makes the row durable or raises
Commit(r, outcome) ==
    /\ reqs[r].pc = "commit"
    /\ reqs' = [reqs EXCEPT ![r] =
           IF outcome = "ok"
           THEN [reqs[r] EXCEPT !.conn = "open", !.pc = "close"]
           ELSE Raise(reqs[r], "commit", outcome, StoreExceptResponse(outcome))]
    /\ rows' = IF outcome = "ok"
               THEN Append(rows, Row(reqs[r].body, reqs[r].current_time, r,
                                     Len(rows) + 1))
               ELSE rows
    /\ UNCHANGED <<RATE_LIMIT_REQUESTS, now, rate_limit_store, nreq, calls,
                   notifierVars, validateVars>>

\* the handler after a step of its send_to_telegram call: suspended again,
\* answering (lines 291-293), or in its outer except clauses
AfterSendStep(req, f) ==
    IF f.pc = "returned"
    THEN Respond([req EXCEPT !.call = f], SendReturnResponse(f.result))
    ELSE IF f.pc = "raised"
    THEN Raise([req EXCEPT !.call = f], "notify", "Exception",
               ExceptionResponse("Exception"))
    ELSE [req EXCEPT !.call = f]

\* lines 277-291 and 94-102: conn.close() returns or raises; the chat text
\* is built and send_to_telegram runs up to its first session.post
Close(r, outcome) ==
    /\ reqs[r].pc = "close"
    /\ \E text \in {telegram_message(reqs[r].body)} :
         reqs' = [reqs EXCEPT ![r] =
           IF outcome = "ok"
           THEN AfterSendStep(
                  [reqs[r] EXCEPT !.conn = "closed", !.pc = "send",
                                  !.gates = Append(reqs[r].gates, "notify")],
                  send_to_telegram(text, DEFAULT_MAX_RETRIES))
           ELSE Raise(reqs[r], "close", outcome, StoreExceptResponse(outcome))]
    /\ UNCHANGED <<RATE_LIMIT_REQUESTS, now, rate_limit_store, nreq, rows,
                   calls, notifierVars, validateVars>>

\* lines 103-120 within the handler: one session.post ends
Post(r, outcome) ==
    /\ reqs[r].pc = "send"
    /\ reqs[r].call.pc = "post"
    /\ reqs' = [reqs EXCEPT ![r] =
                   AfterSendStep(reqs[r], post_attempt(reqs[r].call, outcome))]
    /\ UNCHANGED <<RATE_LIMIT_REQUESTS, now, rate_limit_store, nreq, rows,
                   calls, notifierVars, validateVars>>

\* lines 116, 120 within the handler: the backoff sleep is over
Wake(r) ==
    /\ reqs[r].pc = "send"
    /\ reqs[r].call.pc = "sleep"
    /\ reqs' = [reqs EXCEPT ![r] = AfterSendStep(reqs[r], sleep_done(reqs[r].call))]
    /\ UNCHANGED <<RATE_LIMIT_REQUESTS, now, rate_limit_store, nreq, rows,
                   calls, notifierVars, validateVars>>

Next ==
    \/ Tick
    \/ \E remote \in Peers, header \in Headers : webhook(remote, header)
    \/ \E r \in 1..MaxReq, body \in Bodies : ReadJson(r, body)
    \/ \E r \in 1..MaxReq, outcome \in ConnectOutcomes : Connect(r, outcome)
    \/ \E r \in 1..MaxReq, outcome \in StoreOutcomes : Execute(r, outcome)
    \/ \E r \in 1..MaxReq, outcome \in StoreOutcomes : Commit(r, outcome)
    \/ \E r \in 1..MaxReq, outcome \in StoreOutcomes : Close(r, outcome)
    \/ \E r \in 1..MaxReq, outcome \in AttemptOutcomes : Post(r, outcome)
    \/ \E r \in 1..MaxReq : Wake(r)

Spec == Init /\ [][Next]_vars

\* a step of the handler of request r: the event loop resumes a coroutine
\* whose awaited call (body read, store call, session.post, sleep) has ended
HandlerStep(r) ==
    \/ \E body \in Bodies : ReadJson(r, body)
    \/ \E outcome \in ConnectOutcomes : Connect(r, outcome)
    \/ \E outcome \in StoreOutcomes : Execute(r, outcome)
    \/ \E outcome \in StoreOutcomes : Commit(r, outcome)
    \/ \E outcome \in StoreOutcomes : Close(r, outcome)
    \/ \E outcome \in AttemptOutcomes : Post(r, outcome)
    \/ Wake(r)

\* SpecFair: the server when awaited calls end (the store calls and
\* session.post return or raise, a sleep elapses) and the event loop then
\* resumes a handler: as long as a handler is suspended, one of them runs.
\* No handler waits for an instant of the clock (the end of a sleep is a
\* step of its own), so the runs are taken at one instant.
FairNext ==
    \/ \E remote \in Peers, header \in Headers : webhook(remote, header)
    \/ \E r \in 1..MaxReq : HandlerStep(r)

SpecFair ==
    Init /\ [][FairNext]_vars /\ WF_vars(\E r \in 1..MaxReq : HandlerStep(r))

(***************************************************************************)
(* SpecLimiter: the rate gate over a longer run.  Requests of two clients  *)
(* arrive while the clock advances; each runs the handler's entry (lines   *)
(* 222-244) and is logged with the instant of its check_rate_limit call,   *)
(* what the call returned, and the status answered (0: the handler went on *)
(* to read the body).                                                      *)
(***************************************************************************)
Arrive(remote, header) ==
    /\ Len(calls) < MaxCalls
    /\ LET e == WebhookEntry(rate_limit_store, now, remote, header)
       IN  /\ rate_limit_store' = e.store
           /\ calls' = Append(calls, [ip |-> e.req.client_ip, t |-> now,
                                      ok |-> e.req.admitted,
                                      status |-> e.req.response.status])
    /\ UNCHANGED <<RATE_LIMIT_REQUESTS, now, handlerVars, notifierVars,
                   validateVars>>

LimiterTick ==
    /\ now < MaxClock
    /\ now' = now + 1
    /\ UNCHANGED <<RATE_LIMIT_REQUESTS, rate_limit_store, handlerVars, calls,
                   notifierVars, validateVars>>

LimiterNext ==
    \/ LimiterTick
    \/ \E remote \in Remotes, header \in {NoHeader, Header(API_KEY)} :
          Arrive(remote, header)

SpecLimiter == Init /\ [][LimiterNext]_vars

(***************************************************************************)
(* SpecNotifier: one call send_to_telegram(message, max_retries) made      *)
(* directly, with any message and any retry count.                         *)
(***************************************************************************)
Messages ==
    { << >>, Rep("a", 10), Rep("a", MAX_MESSAGE_LENGTH - 1),
      Rep("a", MAX_MESSAGE_LENGTH), Rep("a", MAX_MESSAGE_LENGTH + 1),
      Concat(Rep("a", MAX_MESSAGE_LENGTH - 4), Rep("b", 10)),
      Concat(Rep("a", 4000), Rep(".", 1000)) }

NotifierInit ==
    /\ RATE_LIMIT_REQUESTS = 1
    /\ LimiterIdle
    /\ HandlerIdle
    /\ ValidateIdle
    /\ message \in Messages
    /\ max_retries \in 0..MaxRetriesArg
    /\ call = IdleCall
    /\ outcomes = << >>
    /\ sleeps = << >>

\* lines 94-102
Call ==
    /\ call.pc = "none"
    /\ call' = send_to_telegram(message, max_retries)
    /\ UNCHANGED <<RATE_LIMIT_REQUESTS, now, rate_limit_store, handlerVars,
                   calls, message, max_retries, outcomes, sleeps, validateVars>>

\* lines 103-120: one session.post ends
Attempt(outcome) ==
    /\ call.pc = "post"
    /\ call' = post_attempt(call, outcome)
    /\ outcomes' = Append(outcomes, outcome)
    /\ sleeps' = IF call'.pc = "sleep"
                 THEN Append(sleeps, <<call.attempt, call'.delay>>)
                 ELSE sleeps
    /\ UNCHANGED <<RATE_LIMIT_REQUESTS, now, rate_limit_store, handlerVars,
                   calls, message, max_retries, validateVars>>

\* lines 116, 120: the backoff sleep is over
Resume ==
    /\ call.pc = "sleep"
    /\ call' = sleep_done(call)
    /\ UNCHANGED <<RATE_LIMIT_REQUESTS, now, rate_limit_store, handlerVars,
                   calls, message, max_retries, outcomes, sleeps, validateVars>>

NotifierNext ==
    \/ Call
    \/ \E outcome \in AttemptOutcomes : Attempt(outcome)
    \/ Resume

SpecNotifier == NotifierInit /\ [][NotifierNext]_vars

(***************************************************************************)
(* SpecValidate: one call validate_notification_data(payload).             *)
(***************************************************************************)
ServiceValues ==
    {Absent, JNull, JInt, JStr(<< >>), JStr(Rep("s", MAX_SERVICE_LENGTH)),
     JStr(Rep("x", MAX_SERVICE_LENGTH + 1))}
EventValues ==
    {Absent, JNull, JStr(<< >>), JStr(Rep("e", MAX_EVENT_LENGTH)),
     JStr(Rep("e", MAX_EVENT_LENGTH + 1))}
ErrorValues == {Absent, JBool(TRUE), JBool(FALSE), JInt, JStr(Rep("t", 4))}
MessageValues ==
    {Absent, JBool(TRUE), JStr(Rep("o", 2)), JStr(Rep("m", MAX_FIELD_LENGTH)),
     JStr(Rep("m", MAX_FIELD_LENGTH + 1))}

Payloads ==
    {JOther("list"), JOther("str"), JOther("null")}
    \cup {JObject(sv, ev, er, mv) : sv \in ServiceValues, ev \in EventValues,
                                    er \in ErrorValues, mv \in MessageValues}

ValidateInit ==
    /\ RATE_LIMIT_REQUESTS = 1
    /\ LimiterIdle
    /\ HandlerIdle
    /\ NotifierIdle
    /\ payload \in Payloads
    /\ result = NoResult

Validate ==
    /\ result = NoResult
    /\ result' = validate_notification_data(payload)
    /\ UNCHANGED <<RATE_LIMIT_REQUESTS, now, rate_limit_store, handlerVars,
                   calls, notifierVars, payload>>

ValidateNext == Validate

SpecValidate == ValidateInit /\ [][ValidateNext]_vars

(***************************************************************************)
(* Properties of send_to_telegram (SpecNotifier).                          *)
(***************************************************************************)
Attempts == Len(outcomes)
Got200 == \E i \in 1..Attempts : outcomes[i] = "200"
SleepSet == {sleeps[i] : i \in 1..Len(sleeps)}

\* s without its first k characters
RECURSIVE Drop(_, _)
Drop(s, k) ==
    IF k <= 0 \/ s = << >> THEN s
    ELSE IF Head(s).n <= k THEN Drop(Tail(s), k - Head(s).n)
    ELSE << [ch |-> Head(s).ch, n |-> Head(s).n - k] >> \o Tail(s)

\* C6: send_to_telegram returns true exactly when one of its attempts got
\* status 200, and that attempt is its last one; otherwise it returns false
\* after exactly max_retries attempts; no exception of an attempt leaves it.
C6_ReturnValue ==
    /\ call.pc # "raised"
    /\ Attempts <= max_retries
    /\ \A i \in 1..Attempts : outcomes[i] = "200" => i = Attempts
    /\ Got200 => call.pc = "returned"
    /\ call.pc = "returned" =>
          /\ call.result <=> Got200
          /\ ~call.result => Attempts = max_retries

\* C6 witness: a call that absorbed an exception and a non-200 status and
\* returned false, having used up its attempts
C6_Witness ==
    /\ call.pc = "returned"
    /\ ~call.result
    /\ max_retries = 3
    /\ outcomes = <<"Exception", "non200", "ClientError">>

\* C7 (as claimed): after every failed attempt k that is not the last one,
\* whatever the failure, the call sleeps 2^k seconds; it never sleeps after
\* the last attempt; two failures then a success give delays 1 and 2.
C7_BackoffAfterEveryFailure ==
    /\ \A k \in 0..(Attempts - 1) :
          (outcomes[k + 1] # "200" /\ k < max_retries - 1)
              => <<k, Pow2(k)>> \in SleepSet
    /\ \A i \in 1..Len(sleeps) :
          /\ sleeps[i][1] < max_retries - 1
          /\ sleeps[i][2] = Pow2(sleeps[i][1])
    /\ (call.pc = "returned" /\ Attempts = 3 /\ outcomes[3] = "200")
          => (call.result /\ sleeps = << <<0, 1>>, <<1, 2>> >>)

\* C8: a message longer than MAX_MESSAGE_LENGTH is posted as its first
\* MAX_MESSAGE_LENGTH - 3 characters followed by "...", MAX_MESSAGE_LENGTH
\* characters in all; a shorter one is posted unchanged; every attempt posts
\* the same text.
C8_PostedText ==
    \A i \in 1..Len(call.posts) :
        LET text == call.posts[i]
        IN  IF len(message) > MAX_MESSAGE_LENGTH
            THEN /\ len(text) = MAX_MESSAGE_LENGTH
                 /\ Slice(text, MAX_MESSAGE_LENGTH - 3)
                       = Slice(message, MAX_MESSAGE_LENGTH - 3)
                 /\ Drop(text, MAX_MESSAGE_LENGTH - 3) = << [ch |-> ".", n |-> 3] >>
            ELSE text = message

\* C8 witness: a retried call with a message that is too long
C8_Witness ==
    /\ len(message) = MAX_MESSAGE_LENGTH + 6
    /\ Len(call.posts) = 3

(***************************************************************************)
(* Properties of validate_notification_data (SpecValidate).                *)
(***************************************************************************)
Rule1(d) == d.kind = "dict"
Rule2(d) == d.service.type # "absent" /\ d.message.type # "absent"
Rule3(d) == d.service.type = "str" /\ len(d.service.s) <= 100
Rule4(d) == d.event.type = "absent"
            \/ (d.event.type = "str" /\ len(d.event.s) <= 100)
Rule5(d) == d.message.type = "str" /\ len(d.message.s) <= 1000
Rule6(d) == d.error.type \in {"absent", "bool"}
Rule(d, k) ==
    CASE k = 1 -> Rule1(d) [] k = 2 -> Rule2(d) [] k = 3 -> Rule3(d)
      [] k = 4 -> Rule4(d) [] k = 5 -> Rule5(d) [] k = 6 -> Rule6(d)

\* the message that names rule k on payload d
RuleMessage(d, k) ==
    CASE k = 1 -> "Data must be a JSON object"
      [] k = 2 -> "Missing required fields: 'service' and 'message'"
      [] k = 3 -> IF d.service.type # "str"
                  THEN "Field 'service' must be a string"
                  ELSE "Field 'service' exceeds maximum length of 100"
      [] k = 4 -> IF d.event.type # "str"
                  THEN "Field 'event' must be a string"
                  ELSE "Field 'event' exceeds maximum length of 100"
      [] k = 5 -> IF d.message.type # "str"
                  THEN "Field 'message' must be a string"
                  ELSE "Field 'message' exceeds maximum length of 1000"
      [] k = 6 -> "Field 'error' must be a boolean"

\* C9: the validator accepts exactly the payloads that meet the six rules,
\* and rejects every other one with the message of the first rule, in the
\* order 1..6, that the payload breaks.
C9_FirstViolatedRule ==
    result # NoResult =>
        /\ result[1] <=> \A k \in 1..6 : Rule(payload, k)
        /\ result[1] => result[2] = None
        /\ \A k \in 1..6 :
              (~Rule(payload, k) /\ \A j \in 1..(k - 1) : Rule(payload, j))
                  => result = <<FALSE, RuleMessage(payload, k)>>

\* C9 witness: a 101-character service together with a non-boolean error
\* is rejected for the length of the service
C9_Witness ==
    /\ payload.kind = "dict"
    /\ payload.service.type = "str" /\ len(payload.service.s) = 101
    /\ payload.error.type = "int"
    /\ result = <<FALSE, "Field 'service' exceeds maximum length of 100">>

(***************************************************************************)
(* Properties of the rate gate (SpecLimiter).                              *)
(***************************************************************************)
\* request j of the log is of the client of request i and lies in the
\* window that ends with request i
InWindow(i, j) ==
    /\ calls[j].ip = calls[i].ip
    /\ calls[i].t - calls[j].t < RATE_LIMIT_WINDOW
IssuedInWindow(i) == Cardinality({j \in 1..i : InWindow(i, j)})
AdmittedBefore(i) ==
    Cardinality({j \in 1..(i - 1) : InWindow(i, j) /\ calls[j].ok})

\* C3: a request that is at most the RATE_LIMIT_REQUESTS-th of its client in
\* the window ending with it is admitted; a request that follows
\* RATE_LIMIT_REQUESTS admitted ones of its client inside the window is
\* rejected; the rejected requests are the ones answered 429.
C3_SlidingWindow ==
    \A i \in 1..Len(calls) :
        /\ IssuedInWindow(i) <= RATE_LIMIT_REQUESTS => calls[i].ok
        /\ AdmittedBefore(i) >= RATE_LIMIT_REQUESTS => ~calls[i].ok
        /\ ~calls[i].ok <=> calls[i].status = 429

\* C3 witness: with a quota of 2, one client is admitted twice, rejected
\* with 429 inside the window, and admitted again once the window has passed
C3_Witness ==
    /\ RATE_LIMIT_REQUESTS = 2
    /\ Len(calls) = 4
    /\ \A i \in 1..4 : calls[i].ip = "10.0.0.1"
    /\ calls[1].ok /\ calls[2].ok /\ ~calls[3].ok /\ calls[4].ok
    /\ calls[3].status = 429
    /\ calls[4].t - calls[1].t = RATE_LIMIT_WINDOW
    /\ calls[4].t - calls[3].t < RATE_LIMIT_WINDOW

\* the entries of seq that are less than RATE_LIMIT_WINDOW seconds old at t
StillInWindow(seq, t) ==
    SelectSeq(seq, LAMBDA e : t - e < RATE_LIMIT_WINDOW)

\* the last request of the log, when the step has logged one
Logged == Len(calls') = Len(calls) + 1
Last == calls'[Len(calls')]

\* the instants of the admitted requests of client ip in the log, in order,
\* that are inside the window at the client's latest request
RECURSIVE AdmittedTimes(_, _)
AdmittedTimes(ip, n) ==
    IF n = 0 THEN << >>
    ELSE IF calls[n].ip = ip /\ calls[n].ok
         THEN Append(AdmittedTimes(ip, n - 1), calls[n].t)
         ELSE AdmittedTimes(ip, n - 1)
LatestOf(ip) ==
    LET mine == {j \in 1..Len(calls) : calls[j].ip = ip}
    IN  IF mine = {} THEN 0
        ELSE calls[CHOOSE j \in mine : \A k \in mine : k <= j].t

\* C15: a call that rejects leaves in the client's sequence the entries
\* that were unexpired before it and adds none; a call that admits adds the
\* current instant after them and nothing else.  So the sequence holds the
\* instants of admitted requests only: a rejected request is in no later
\* count.
C15_RejectAppendsNothing ==
    /\ [][Logged =>
            rate_limit_store'[Last.ip] =
                IF Last.ok
                THEN Append(StillInWindow(rate_limit_store[Last.ip], now), now)
                ELSE StillInWindow(rate_limit_store[Last.ip], now)]_vars
    /\ [](\A ip \in Clients :
            rate_limit_store[ip] =
                StillInWindow(AdmittedTimes(ip, Len(calls)), LatestOf(ip)))

\* C15 witness: with a quota of 2, a client is admitted at 0 and 1, rejected
\* at 2, and admitted at 3, when its sequence is <<1, 3>>
C15_Witness ==
    /\ RATE_LIMIT_REQUESTS = 2
    /\ Len(calls) = 4
    /\ \A i \in 1..4 : calls[i].ip = "unknown"
    /\ ~calls[3].ok /\ calls[3].t = 2
    /\ calls[4].ok
    /\ rate_limit_store["unknown"] = <<1, 3>>

\* C17: every client's sequence has at most RATE_LIMIT_REQUESTS entries in
\* non-decreasing order, and the request of one client leaves the sequence
\* of every other client as it was.
C17_SequencesBoundedSorted ==
    /\ [](\A ip \in Clients :
            /\ Len(rate_limit_store[ip]) <= RATE_LIMIT_REQUESTS
            /\ \A i, j \in 1..Len(rate_limit_store[ip]) :
                  i < j => rate_limit_store[ip][i] <= rate_limit_store[ip][j])
    /\ [][Logged =>
            \A ip \in Clients \ {Last.ip} :
                rate_limit_store'[ip] = rate_limit_store[ip]]_vars

\* C17 witness: both clients have a full sequence of two entries of
\* different instants, and the entries of "unknown" have expired unpruned
\* while 10.0.0.1 was served
C17_Witness ==
    /\ RATE_LIMIT_REQUESTS = 2
    /\ rate_limit_store["unknown"] = <<0, 0>>
    /\ Len(rate_limit_store["10.0.0.1"]) = 2
    /\ rate_limit_store["10.0.0.1"][1] < rate_limit_store["10.0.0.1"][2]
    /\ rate_limit_store["10.0.0.1"][2] = RATE_LIMIT_WINDOW

\* the oldest instant the sequence of request i's client retains after
\* request i (the instant of request i if it retains none)
OldestRetained(i) ==
    LET kept == {j \in 1..(i - 1) : InWindow(i, j) /\ calls[j].ok}
    IN  IF kept = {} THEN calls[i].t
        ELSE calls[CHOOSE j \in kept : \A k \in kept : j <= k].t

\* C18: after a rejected request i of a client, a request j of the client
\* made RATE_LIMIT_WINDOW seconds or more after the oldest instant retained
\* at i is admitted, however many rejected requests of the client lie
\* between i and j, also when j is made exactly RATE_LIMIT_WINDOW seconds
\* after that instant.
C18_RecoversAfterWindow ==
    \A i, j \in 1..Len(calls) :
        (/\ i < j /\ calls[i].ip = calls[j].ip
         /\ ~calls[i].ok
         /\ \A k \in (i + 1)..(j - 1) : calls[k].ip = calls[i].ip => ~calls[k].ok
         /\ calls[j].t - OldestRetained(i) >= RATE_LIMIT_WINDOW)
            => calls[j].ok

\* C18 witness: with a quota of 1, a client admitted at 0 is rejected twice
\* and admitted again exactly RATE_LIMIT_WINDOW seconds after 0
C18_Witness ==
    /\ RATE_LIMIT_REQUESTS = 1
    /\ Len(calls) = 4
    /\ \A i \in 1..4 : calls[i].ip = "10.0.0.1"
    /\ calls[1].ok /\ calls[1].t = 0
    /\ ~calls[2].ok /\ ~calls[3].ok
    /\ calls[4].ok /\ calls[4].t = RATE_LIMIT_WINDOW

(***************************************************************************)
(* Properties of the webhook handler (Spec).                               *)
(***************************************************************************)
Done(r) == reqs[r].pc = "done"
RowsOf(r) == {i \in 1..Len(rows) : rows[i].req = r}
GoodKey(req) == req.header.present /\ req.header.s = API_KEY
ValidBody(req) ==
    req.body.kind # "malformed" /\ \A k \in 1..6 : Rule(req.body, k)
PostsOf(r) == Len(reqs[r].call.posts)
\* the request can be one with a valid body: its body was read and is valid,
\* or the handler ended without reading it, as it does for any body
ValidRequest(req) == ValidBody(req) \/ (req.pc = "done" /\ req.body = Unread)

\* C1 (as claimed): every request with the correct key and a valid body ends
\* with 200 {"success": true} and exactly one row of its own.
C1_EveryValidRequest ==
    \A r \in 1..nreq :
        (GoodKey(reqs[r]) /\ ValidRequest(reqs[r]) /\ Done(r))
            => /\ reqs[r].response = SuccessResponse
               /\ Cardinality(RowsOf(r)) = 1

\* C1 (amended): every request that the rate check admits, with the correct
\* key and a valid body, and none of whose store calls raises, ends with 200
\* {"success": true} and exactly one row of its own, whatever the chat
\* delivery did; the row is there in every later state.
C1_AdmittedStoredRequest ==
    \A r \in 1..nreq :
        (GoodKey(reqs[r]) /\ ValidBody(reqs[r]) /\ reqs[r].admitted
         /\ reqs[r].exc = NoExc)
            => /\ Cardinality(RowsOf(r)) <= 1
               /\ Done(r) => /\ reqs[r].response = SuccessResponse
                             /\ Cardinality(RowsOf(r)) = 1

\* C1 witness: a request answered 200 with its row although all three
\* delivery attempts failed
C1_Witness ==
    \E r \in 1..nreq :
        /\ Done(r) /\ reqs[r].response = SuccessResponse
        /\ PostsOf(r) = 3 /\ ~reqs[r].call.result
        /\ Cardinality(RowsOf(r)) = 1

\* C2 (as claimed): a request whose API-Key header is missing, empty or
\* different from the configured key writes no row, posts nothing to the
\* chat, and, once past the rate check, is answered 401 "Unauthorized".
C2_BadKeyIs401 ==
    \A r \in 1..nreq :
        ~GoodKey(reqs[r])
            => /\ RowsOf(r) = {}
               /\ PostsOf(r) = 0
               /\ reqs[r].admitted
                     => (Done(r) /\ reqs[r].response = UnauthorizedResponse)

\* the gate that fails first for a request that has ended, "none" if no gate
\* failed: over quota, bad key, body not JSON, payload invalid, storage error
FirstFailingGate(req) ==
    IF ~req.admitted THEN "rate"
    ELSE IF ~GoodKey(req) THEN "auth"
    ELSE IF req.body.kind = "malformed" THEN "parse"
    ELSE IF ~ValidBody(req) THEN "validate"
    ELSE IF req.exc.type = "aiosqlite.Error" THEN "persist"
    ELSE "none"

FirstViolatedRule(d) ==
    CHOOSE k \in 1..6 : ~Rule(d, k) /\ \A j \in 1..(k - 1) : Rule(d, j)

GateResponse(req, gate) ==
    CASE gate = "rate" -> RateLimitResponse
      [] gate = "auth" -> UnauthorizedResponse
      [] gate = "parse" -> InvalidJsonResponse
      [] gate = "validate" ->
            ValidationResponse(RuleMessage(req.body, FirstViolatedRule(req.body)))
      [] gate = "persist" -> DatabaseErrorResponse

GatesUpTo(gate) ==
    CASE gate = "rate" -> <<"rate">>
      [] gate = "auth" -> <<"rate", "auth">>
      [] gate = "parse" -> <<"rate", "auth", "parse">>
      [] gate = "validate" -> <<"rate", "auth", "parse", "validate">>
      [] gate = "persist" -> <<"rate", "auth", "parse", "validate", "persist">>

\* C4 (as claimed): a request that fails a gate is answered with the
\* response of the first gate it fails, in the order rate, auth, parse,
\* validate, persist, and the handler evaluated the gates up to that one and
\* no other.
C4_FirstFailingGateAnswers ==
    \A r \in 1..nreq :
        (Done(r) /\ FirstFailingGate(reqs[r]) # "none")
            => /\ reqs[r].response
                    = GateResponse(reqs[r], FirstFailingGate(reqs[r]))
               /\ reqs[r].gates = GatesUpTo(FirstFailingGate(reqs[r]))

\* C5: a request whose INSERT or commit raises a storage error is answered
\* 500 "Database error" and posts nothing to the chat; a request is in its
\* chat delivery only when its row is committed.
C5_NoDeliveryWithoutCommit ==
    \A r \in 1..nreq :
        /\ (reqs[r].exc.at \in {"execute", "commit"}
            /\ reqs[r].exc.type = "aiosqlite.Error")
              => /\ Done(r)
                 /\ reqs[r].response = DatabaseErrorResponse
                 /\ PostsOf(r) = 0
                 /\ reqs[r].call = IdleCall
        /\ (reqs[r].call # IdleCall \/ PostsOf(r) > 0)
              => Cardinality(RowsOf(r)) = 1

\* C5 witness: one request failed in its commit, another one delivered
C5_Witness ==
    /\ \E r \in 1..nreq :
          reqs[r].exc = [at |-> "commit", type |-> "aiosqlite.Error"]
    /\ \E r \in 1..nreq : PostsOf(r) > 0

\* an exception ended the request outside the gates
UngatedFault(req) == req.exc # NoExc /\ req.exc.type # "aiosqlite.Error"

\* every request has its response exactly when it has ended
OneResponse ==
    \A r \in 1..MaxReq : Done(r) <=> reqs[r].response # NoResponse

\* C10 (as claimed): every exception that no gate handles, of any class, is
\* answered 500 "Internal Server Error".
C10_AnyFaultIs500 ==
    /\ OneResponse
    /\ \A r \in 1..nreq :
          UngatedFault(reqs[r])
              => (Done(r) /\ reqs[r].response = InternalErrorResponse)

\* C10 (amended): every exception that no gate handles is caught and
\* answered: 503 "Service unavailable" for an aiohttp.ClientError, 500
\* "Internal Server Error" for any other Exception; every request has
\* exactly one response.
C10_FaultsAnswered ==
    /\ OneResponse
    /\ \A r \in 1..nreq :
          UngatedFault(reqs[r])
              => /\ Done(r)
                 /\ reqs[r].exc.type = "ClientError"
                       => reqs[r].response = ServiceUnavailableResponse
                 /\ reqs[r].exc.type # "ClientError"
                       => reqs[r].response = InternalErrorResponse

\* C10 witness: one request ended by a ClientError, another by a TypeError
C10_Witness ==
    /\ \E r \in 1..nreq : reqs[r].exc.type = "ClientError"
    /\ \E r \in 1..nreq : reqs[r].exc.type = "TypeError"

(***************************************************************************)
(* The chat text and the stored error value (Spec).                        *)
(***************************************************************************)
\* the request has reached the notify stage: send_to_telegram was called
Notified(r) == reqs[r].call # IdleCall

IsError(data) == data.error = JBool(TRUE)

\* '<marker> <service>: <message>' as a list of runs
MarkedText(marker, data) ==
    Concat(<< [ch |-> marker, n |-> 1], [ch |-> " ", n |-> 1] >>,
           Concat(data.service.s,
                  Concat(<< [ch |-> ":", n |-> 1], [ch |-> " ", n |-> 1] >>,
                         data.message.s)))

\* C11: the text of a request that has reached the notify stage is
\* 'CROSS <service>: <message>' when the error member of its payload is
\* true and 'MEGAPHONE <service>: <message>' when it is false or absent,
\* and the error value of its row is true in exactly the first case.
C11_MarkerFollowsError ==
    \A r \in 1..nreq :
        /\ Notified(r) =>
              reqs[r].call.text =
                  MarkedText(IF IsError(reqs[r].body) THEN "CROSS"
                             ELSE "MEGAPHONE", reqs[r].body)
        /\ \A i \in RowsOf(r) : rows[i].error = IsError(reqs[r].body)

\* C11 witness: two requests have reached the notify stage, one with error
\* true and a row that says so, the other with no error member
C11_Witness ==
    \E r, q \in 1..nreq :
        /\ Notified(r) /\ Notified(q)
        /\ reqs[r].body.error = JBool(TRUE)
        /\ \E i \in RowsOf(r) : rows[i].error
        /\ reqs[q].body.error = Absent
        /\ \E i \in RowsOf(q) : ~rows[i].error

(***************************************************************************)
(* The rate gate under concurrent requests (Spec).  The runs of Spec lie   *)
(* inside one window (MaxTime < RATE_LIMIT_WINDOW): no entry expires.      *)
(***************************************************************************)
AdmittedOf(ip) == {r \in 1..nreq : reqs[r].client_ip = ip /\ reqs[r].admitted}
InFlight(r) == reqs[r].pc \notin {"new", "done"}

\* C12: whatever the handlers of a client's requests are suspended in, the
\* client's sequence holds one timestamp for each of its admitted requests
\* and none for a rejected one, at most RATE_LIMIT_REQUESTS of its requests
\* are admitted in the window, and only the arrival of a request, in one
\* step, changes the table.
C12_AtomicRateCheck ==
    /\ [](\A ip \in Clients :
            /\ Len(rate_limit_store[ip]) = Cardinality(AdmittedOf(ip))
            /\ Cardinality(AdmittedOf(ip)) <= RATE_LIMIT_REQUESTS)
    /\ [][/\ nreq' = nreq => rate_limit_store' = rate_limit_store
          /\ nreq' # nreq =>
                /\ nreq' = nreq + 1
                /\ \A r \in 1..nreq : reqs'[r] = reqs[r]
                /\ LET ip == reqs'[nreq'].client_ip
                   IN  rate_limit_store'[ip] =
                         IF reqs'[nreq'].admitted
                         THEN Append(rate_limit_store[ip], now)
                         ELSE rate_limit_store[ip]]_vars

\* C12 witness: with a quota of 2, two admitted requests of one client are
\* in flight at once, one in a backoff sleep and one in its store calls
C12_Witness ==
    /\ RATE_LIMIT_REQUESTS = 2
    /\ \E r, q \in 1..nreq :
          /\ r # q /\ reqs[r].client_ip = reqs[q].client_ip
          /\ reqs[r].admitted /\ reqs[q].admitted
          /\ reqs[r].call.pc = "sleep"
          /\ reqs[q].pc \in {"execute", "commit", "close"}
          /\ Len(rate_limit_store[reqs[r].client_ip]) = 2

(***************************************************************************)
(* The order of the rows (Spec).                                           *)
(***************************************************************************)
\* C13 (as claimed): the created_at values of the rows are non-decreasing
\* in the order of their ids.
C13_CreatedAtMonotone ==
    \A i, j \in 1..Len(rows) :
        i < j => rows[i].created_at <= rows[j].created_at

(***************************************************************************)
(* The store connections (Spec).                                           *)
(***************************************************************************)
\* the connection request r opened is still open
HoldsConnection(r) == reqs[r].conn \in {"open", "tx"}

\* C14 (as claimed): a request that has responded holds no open connection,
\* whether its store calls worked or raised, and a request in its chat
\* delivery (a post or a backoff sleep) holds none.
C14_ConnectionsReleased ==
    \A r \in 1..nreq :
        /\ Done(r) => ~HoldsConnection(r)
        /\ reqs[r].pc = "send" => ~HoldsConnection(r)

\* the requests of the client of request r that came before r with a wrong
\* or missing key (all of them inside the window that holds r)
BadKeyBefore(r) ==
    {q \in 1..(r - 1) : /\ reqs[q].client_ip = reqs[r].client_ip
                        /\ ~GoodKey(reqs[q])}

\* C16: a request with the correct key that follows RATE_LIMIT_REQUESTS
\* requests of its client with a wrong or missing key inside the window is
\* answered 429 without its body being read, and has no row.
C16_BadKeysUseTheQuota ==
    \A r \in 1..nreq :
        (GoodKey(reqs[r]) /\ Cardinality(BadKeyBefore(r)) >= RATE_LIMIT_REQUESTS)
            => /\ Done(r)
               /\ reqs[r].response = RateLimitResponse
               /\ reqs[r].body = Unread
               /\ RowsOf(r) = {}

\* C16 witness: with a quota of 1, a request with a wrong key was answered
\* 401 and the next one of the client, with the correct key, 429
C16_Witness ==
    /\ RATE_LIMIT_REQUESTS = 1
    /\ nreq = 2
    /\ reqs[1].client_ip = reqs[2].client_ip
    /\ reqs[1].header = Header(Rep("x", 2))
    /\ reqs[1].response = UnauthorizedResponse
    /\ GoodKey(reqs[2])
    /\ reqs[2].response.status = 429

(***************************************************************************)
(* The text handed to the notifier (Spec).                                 *)
(***************************************************************************)
\* 2 + MAX_SERVICE_LENGTH + 2 + MAX_FIELD_LENGTH
MaxTextLength == 2 + MAX_SERVICE_LENGTH + 2 + MAX_FIELD_LENGTH

\* C20: the text of a request that has reached the notify stage has at most
\* 1104 characters, fewer than MAX_MESSAGE_LENGTH, and is the whole text:
\* the marker, the service and the message of the payload, nothing cut and
\* no "..." added; what is posted is that text.
C20_TextIsNeverTruncated ==
    /\ MaxTextLength = 1104
    /\ MaxTextLength < MAX_MESSAGE_LENGTH
    /\ \A r \in 1..nreq :
          Notified(r) =>
              /\ len(reqs[r].call.text) <= MaxTextLength
              /\ len(reqs[r].call.text)
                    = 4 + len(reqs[r].body.service.s) + len(reqs[r].body.message.s)
              /\ Drop(reqs[r].call.text, 4 + len(reqs[r].body.service.s))
                    = reqs[r].body.message.s
              /\ \A i \in 1..PostsOf(r) :
                    reqs[r].call.posts[i] = reqs[r].call.text

\* C20 witness: a request with a service of 100 characters and a message of
\* 1000 has posted its text of 1104 characters
C20_Witness ==
    \E r \in 1..nreq :
        /\ PostsOf(r) > 0
        /\ len(reqs[r].body.service.s) = MAX_SERVICE_LENGTH
        /\ len(reqs[r].body.message.s) = MAX_FIELD_LENGTH
        /\ len(reqs[r].call.posts[1]) = 1104

(***************************************************************************)
(* Termination of a request (SpecFair).                                    *)
(***************************************************************************)
\* the retry loop of the request's delivery call is inside its bounds: at
\* most max_retries posts, a sleep only after a post that is not the last
\* one allowed, nothing pending once the call has returned
RetryBounds(f) ==
    /\ Len(f.posts) <= f.max_retries
    /\ f.pc = "post" => Len(f.posts) = f.attempt
    /\ f.pc = "sleep" => (Len(f.posts) = f.attempt + 1
                          /\ f.attempt < f.max_retries - 1)
    /\ f.result => f.pc = "returned"

\* a step that suspends request r in a backoff sleep
StartsSleep(r) == reqs[r].call.pc # "sleep" /\ reqs'[r].call.pc = "sleep"

\* C19: every request that has arrived ends with a response, whatever its
\* delivery attempts meet; its delivery call, made with max_retries = 3,
\* posts at most 3 times and sleeps at most twice (a sleep follows a post,
\* and only the first or the second one); after a post answered 200 the
\* call has returned, and a request that has ended posts no more.
C19_RequestTerminates ==
    /\ [](\A r \in 1..MaxReq :
            /\ RetryBounds(reqs[r].call)
            /\ reqs[r].call.max_retries \in {0, DEFAULT_MAX_RETRIES})
    /\ [][\A r \in 1..MaxReq :
            /\ StartsSleep(r) => /\ PostsOf(r)' = PostsOf(r) + 1
                                 /\ PostsOf(r)' < DEFAULT_MAX_RETRIES
            /\ Done(r) => reqs'[r] = reqs[r]]_vars
    /\ <>[](\A r \in 1..MaxReq :
              \/ r > nreq
              \/ Done(r) /\ reqs[r].response # NoResponse)

\* C19 witness: a request that has ended after three failed posts and two
\* sleeps, answered 200
C19_Witness ==
    \E r \in 1..nreq :
        /\ Done(r) /\ reqs[r].response.status = 200
        /\ PostsOf(r) = DEFAULT_MAX_RETRIES
        /\ ~reqs[r].call.result

=============================================================================
